---- MODULE Spec2Model ----
(***************************************************************************)
(* Model of streamlit_app.py: the country finance pipeline.                *)
(*                                                                         *)
(* One user query runs the top-level flow once: ask_gemini, then the       *)
(* currency / exchange-rate stage, the exchanges / index stage, the        *)
(* location stage and the map column.  get_exchange_rates and              *)
(* get_stock_index_values are modelled as sub-machines the flow calls;     *)
(* the pure helpers are operators.                                         *)
(*                                                                         *)
(* Encoding.  A Python string is a sequence of one-character strings.      *)
(* A JSON value of another shape is a one-element sequence holding a       *)
(* bracketed tag (Missing, JsonNull, NonStr ...).  An optional number is   *)
(* <<>> (None) or <<n>>.  A dict is a function on the set of its keys.     *)
(***************************************************************************)
EXTENDS Integers, Sequences, FiniteSets, TLC

VARIABLES
    pc,               \* position of the top-level flow
    exc,              \* the uncaught exception that ended the flow, or "none"
    response_text,    \* the text the model returned (NoText before / on error)
    structured_data,  \* line 256
    raw_llm_response, \* line 256
    gemini_calls,     \* number of requests to the generative endpoint
    code_raw,         \* currency_data.get("code", "") as read on line 271
    currency_code,    \* line 271
    rates,            \* line 279
    usd_rates,        \* line 293
    shown,            \* the rate lines rendered by lines 282-287 / 298-309
    fxPc,             \* position inside get_exchange_rates
    fx_code,          \* its argument
    fx_ret,           \* which call site it returns to
    fxResp,           \* provider -> the response it gave during the current call
    fxLog,            \* every FX request of the query: <<provider, base>>
    all_indices,      \* line 323 / the argument of get_stock_index_values
    idx_i,            \* loop position of line 153
    values,           \* line 151
    lookups,          \* every yf.Ticker lookup: [i, ticker]
    main_location,    \* line 353
    geo_resp,         \* the geocoding provider's response
    geo_result,       \* line 363
    geo_calls         \* number of geocoding requests

vars == <<pc, exc, response_text, structured_data, raw_llm_response, gemini_calls,
          code_raw, currency_code, rates, usd_rates, shown,
          fxPc, fx_code, fx_ret, fxResp, fxLog,
          all_indices, idx_i, values, lookups,
          main_location, geo_resp, geo_result, geo_calls>>

askVars == <<response_text, structured_data, raw_llm_response, gemini_calls>>
curVars == <<code_raw, currency_code>>
rateVars == <<rates, usd_rates, shown>>
fxVars == <<fxPc, fx_code, fx_ret, fxResp, fxLog>>
idxVars == <<all_indices, idx_i, values, lookups>>
geoVars == <<main_location, geo_resp, geo_result, geo_calls>>

----------------------------------------------------------------------------
(* Values *)

Missing == <<"<missing>">>     \* the key is not in the JSON object
JsonNull == <<"<null>">>       \* JSON null: falsy, not a string
NonStr == <<"<number>">>       \* a truthy JSON value that is not a string
PyNone == <<"<None>">>
NoText == <<"<no text>">>
ErrorText == <<"Error: ...">>  \* f"Error: {str(e)}" of line 87
NoRate == <<>>                 \* None where a rate is expected
EmptyDict == [k \in {} |-> NoRate]

Min(S) == CHOOSE x \in S : \A y \in S : x <= y

\* All sequences over S of length lo..hi.
SeqsBetween(S, lo, hi) == UNION {[1..n -> S] : n \in lo..hi}

----------------------------------------------------------------------------
(* Python string operations *)

LowerLetters == <<"a","b","c","d","e","f","g","h","i","j","k","l","m",
                  "n","o","p","q","r","s","t","u","v","w","x","y","z">>
UpperLetters == <<"A","B","C","D","E","F","G","H","I","J","K","L","M",
                  "N","O","P","Q","R","S","T","U","V","W","X","Y","Z">>

\* the character class [A-Za-z] of line 210
IsAsciiLetter(c) == \E i \in 1..26 : c = LowerLetters[i] \/ c = UpperLetters[i]

UpperChar(c) ==
    IF \E i \in 1..26 : LowerLetters[i] = c
    THEN UpperLetters[CHOOSE i \in 1..26 : LowerLetters[i] = c]
    ELSE c

\* str.upper()
Upper(s) == [i \in 1..Len(s) |-> UpperChar(s[i])]

\* s[:n]
Prefix(s, n) == SubSeq(s, 1, IF Len(s) < n THEN Len(s) ELSE n)

\* needle in hay
StrContains(hay, needle) ==
    \E i \in 0..(Len(hay) - Len(needle)) : SubSeq(hay, i + 1, i + Len(needle)) = needle

----------------------------------------------------------------------------
(* normalize_currency_code, lines 204-223 *)

TypeErrorRaised == <<"<TypeError>">>

\* re.sub(r'[^A-Za-z]', '', code), line 210
StripNonAlpha(code) == SelectSeq(code, IsAsciiLetter)

\* line 213: code.upper()[:3]
UpperFirst3Mutant(code) == Prefix(Upper(code), 4)
UpperFirst3(code) == Prefix(Upper(code), 3)

\* `not code` holds of "", None and 0; re.sub raises TypeError on any other
\* non-string.  Lines 216-223 return the code whether or not it is in
\* common_codes.
normalize_currency_code(code) ==
    IF code = <<>> \/ code = JsonNull THEN <<>>
    ELSE IF code = NonStr THEN TypeErrorRaised
    ELSE UpperFirst3(StripNonAlpha(code))

----------------------------------------------------------------------------
(* The ticker guess of get_stock_index_values, lines 164-190 *)

Caret == <<"^">>
Dot == <<".">>

YfSymbolMutant(name, symbol) ==
    IF StrContains(symbol, Caret) \/ StrContains(symbol, Dot) THEN symbol
    ELSE IF StrContains(Upper(name), <<"N","I","F","T","Y">>) THEN <<"^","N","S","E","I">>
    ELSE IF StrContains(Upper(name), <<"S","E","N","S","E","X">>) THEN <<"^","B","S","E","S","N">>
    ELSE IF StrContains(Upper(name), <<"N","I","K","K","E","I">>) THEN <<"^","N","2","2","5">>
    ELSE IF StrContains(Upper(name), <<"F","T","S","E">>) THEN <<"^","F","T","S","E">>
    ELSE IF StrContains(Upper(name), <<"N","A","S","D","A","Q">>) THEN <<"^","I","X","I","C">>
    ELSE IF StrContains(Upper(name), <<"D","O","W">>) THEN <<"^","D","J","I">>
    ELSE IF StrContains(Upper(name), <<"S","&","P">>)
            \/ StrContains(Upper(name), <<"S","P","X">>) THEN <<"^","G","S","P","C">>
    ELSE IF StrContains(Upper(name), <<"K","O","S","P","I">>) THEN <<"^","K","S","1","1">>
    ELSE IF StrContains(Upper(name), <<"S","H","A","N","G","H","A","I">>)
         THEN <<"0","0","0","0","0","1",".","S","S">>
    ELSE IF StrContains(Upper(name), <<"H","A","N","G"," ","S","E","N","G">>) THEN <<"^","H","S","I">>
    ELSE IF StrContains(Upper(name), <<"D","A","X">>) THEN <<"^","G","D","A","X","I">>
    ELSE IF StrContains(Upper(name), <<"C","A","C">>) THEN <<"^","F","C","H","I">>
    ELSE symbol

\* yf_symbol as computed by lines 164-190 for a string name and symbol
YfSymbol(name, symbol) ==
    IF StrContains(symbol, Caret) \/ StrContains(symbol, Dot) THEN symbol
    ELSE IF StrContains(Upper(name), <<"N","I","F","T","Y">>) THEN <<"^","N","S","E","I">>
    ELSE IF StrContains(Upper(name), <<"S","E","N","S","E","X">>) THEN <<"^","B","S","E","S","N">>
    ELSE IF StrContains(Upper(name), <<"N","I","K","K","E","I">>) THEN <<"^","N","2","2","5">>
    ELSE IF StrContains(Upper(name), <<"F","T","S","E">>) THEN <<"^","F","T","S","E">>
    ELSE IF StrContains(Upper(name), <<"D","O","W">>) THEN <<"^","D","J","I">>
    ELSE IF StrContains(Upper(name), <<"S","&","P">>)
            \/ StrContains(Upper(name), <<"S","P","X">>) THEN <<"^","G","S","P","C">>
    ELSE IF StrContains(Upper(name), <<"N","A","S","D","A","Q">>) THEN <<"^","I","X","I","C">>
    ELSE IF StrContains(Upper(name), <<"K","O","S","P","I">>) THEN <<"^","K","S","1","1">>
    ELSE IF StrContains(Upper(name), <<"S","H","A","N","G","H","A","I">>)
         THEN <<"0","0","0","0","0","1",".","S","S">>
    ELSE IF StrContains(Upper(name), <<"H","A","N","G"," ","S","E","N","G">>) THEN <<"^","H","S","I">>
    ELSE IF StrContains(Upper(name), <<"D","A","X">>) THEN <<"^","G","D","A","X","I">>
    ELSE IF StrContains(Upper(name), <<"C","A","C">>) THEN <<"^","F","C","H","I">>
    ELSE symbol

----------------------------------------------------------------------------
(* ask_gemini, lines 23-87 *)

(* The response text is a sequence over TextAlphabet:                      *)
(*   "T" three backticks, "j" the word json, "N" a newline,                *)
(*   "1" a digit, "O" a JSON object literal (written without a newline).   *)
TextAlphabet == {"T", "j", "N", "1", "O"}
ParseAlphabet == {"T", "j", "N", "1"}
FenceOpen == <<"T", "j", "N">>     \* ```json\n
FenceClose == <<"N", "T">>         \* \n```
NoMatch == <<"<no match>">>
JSONDecodeError == <<"<JSONDecodeError>">>

\* json.loads: whitespace, one value, whitespace.  Over this alphabet the
\* values are a run of digits (a number) and an object literal.
LStrip(s) ==
    LET body == {i \in 1..Len(s) : s[i] # "N"}
    IN  IF body = {} THEN <<>> ELSE SubSeq(s, Min(body), Len(s))

RStrip(s) ==
    LET body == {i \in 1..Len(s) : s[i] # "N"}
    IN  IF body = {} THEN <<>> ELSE SubSeq(s, 1, CHOOSE i \in body : \A k \in body : k <= i)

json_loads(s) ==
    LET v == RStrip(LStrip(s))
    IN  IF v = <<"O">> THEN v
        ELSE IF v # <<>> /\ \A i \in 1..Len(v) : v[i] = "1" THEN v
        ELSE JSONDecodeError

IsJsonObject(v) == v = <<"O">>

\* re.search(r'```json\n(.*?)\n```', text, re.DOTALL).group(1), or NoMatch:
\* the leftmost opening fence that has a closing fence after it, and the
\* shortest content up to a closing fence.
ReSearchFence(text) ==
    LET opens == {i \in 1..(Len(text) - 2) : SubSeq(text, i, i + 2) = FenceOpen}
        closes(i) == {k \in (i + 3)..(Len(text) - 1) : SubSeq(text, k, k + 1) = FenceClose}
        ok == {i \in opens : closes(i) # {}}
    IN  IF ok = {} THEN NoMatch
        ELSE LET i == Min(ok)
             IN  SubSeq(text, i + 3, Min(closes(i)) - 1)

\* lines 70-83: (parsed_data | None, response_text)
ParseResponseNoFence(text) ==
    LET parsed == json_loads(text)
    IN  IF parsed = JSONDecodeError THEN <<PyNone, text>> ELSE <<parsed, text>>

ParseResponseDropsRaw(text) ==
    LET json_match == ReSearchFence(text)
        json_str == IF json_match # NoMatch THEN json_match ELSE text
        parsed == json_loads(json_str)
    IN  IF parsed = JSONDecodeError THEN <<PyNone, ErrorText>> ELSE <<parsed, text>>

ParseResponse(text) ==
    LET json_match == ReSearchFence(text)
        json_str == IF json_match # NoMatch THEN json_match ELSE text
        parsed == json_loads(json_str)
    IN  IF parsed = JSONDecodeError THEN <<PyNone, text>> ELSE <<parsed, text>>

\* resp is what the endpoint did: [kind |-> "error"] for a transport or HTTP
\* failure or a reply without candidates[0].content.parts[0].text (lines
\* 62-67 raise, lines 85-87 catch), [kind |-> "text", text |-> t] otherwise.
ask_gemini(resp) ==
    IF resp.kind = "error" THEN <<PyNone, ErrorText>> ELSE ParseResponse(resp.text)

\* `if structured_data:`
Truthy(v) == v # PyNone

----------------------------------------------------------------------------
(* get_exchange_rates, lines 89-147 *)

USD == <<"U","S","D">>
INR == <<"I","N","R">>
GBP == <<"G","B","P">>
EUR == <<"E","U","R">>
JPY == <<"J","P","Y">>
Targets == {USD, INR, GBP, EUR}

(* A provider's response to one request:                                   *)
(*   [kind |-> "transport"]  requests.get raised (connection, timeout)     *)
(*   [kind |-> "non200"]     a status other than 200                       *)
(*   [kind |-> "badbody"]    status 200, but response.json() raises or the *)
(*                           document is not an object with an object      *)
(*                           under "rates"                                 *)
(*   [kind |-> "ok", rates |-> f]  status 200 and the "rates" mapping f    *)
(*                           (absent "rates" is the empty mapping)         *)
FxRaises(p) == p.kind \in {"transport", "badbody"}

\* lines 102-107 and 118-123: rates.get(k) for the four targets
FourTargets(r) == [k \in Targets |-> IF k \in DOMAIN r THEN <<r[k]>> ELSE NoRate]

\* lines 96 and 101
PrimaryUsable(p) ==
    /\ p.kind = "ok"
    /\ DOMAIN p.rates # {}
    /\ \A k \in Targets : k \in DOMAIN p.rates

\* lines 134-139
UsdSynthesized(r) ==
    [k \in Targets |-> IF k = USD THEN <<1>>
                       ELSE IF k \in DOMAIN r THEN <<r[k]>> ELSE NoRate]

\* the return statement of get_exchange_rates, back at line 279 or line 293
FxReturn(result) ==
    /\ fxPc' = "idle"
    /\ IF fx_ret = "direct"
       THEN rates' = result /\ pc' = "display" /\ UNCHANGED usd_rates
       ELSE usd_rates' = result /\ pc' = "invert" /\ UNCHANGED rates

FxRequest(provider, p) ==
    /\ fxResp' = [x \in DOMAIN fxResp \cup {provider} |->
                     IF x = provider THEN p ELSE fxResp[x]]
    /\ fxLog' = Append(fxLog, <<provider, fx_code>>)

\* lines 93-107
FxPrimary(P) ==
    /\ pc = "fx" /\ fxPc = "primary"
    /\ \E p \in P :
        /\ FxRequest("primary", p)
        /\ IF FxRaises(p) THEN FxReturn(EmptyDict)
           ELSE IF PrimaryUsable(p) THEN FxReturn(FourTargets(p.rates))
           ELSE fxPc' = "secondary" /\ UNCHANGED <<pc, rates, usd_rates>>
    /\ UNCHANGED <<exc, askVars, curVars, shown, fx_code, fx_ret, idxVars, geoVars>>

\* lines 111-126
FxSecondary(P) ==
    /\ pc = "fx" /\ fxPc = "secondary"
    /\ \E p \in P :
        /\ FxRequest("secondary", p)
        /\ IF FxRaises(p) THEN FxReturn(EmptyDict)
           ELSE IF p.kind = "ok" THEN FxReturn(FourTargets(p.rates))
           ELSE IF fx_code = USD
                THEN fxPc' = "tertiary" /\ UNCHANGED <<pc, rates, usd_rates>>
                ELSE FxReturn(EmptyDict)
    /\ UNCHANGED <<exc, askVars, curVars, shown, fx_code, fx_ret, idxVars, geoVars>>

\* lines 127-143
FxTertiary(P) ==
    /\ pc = "fx" /\ fxPc = "tertiary"
    /\ \E p \in P :
        /\ FxRequest("tertiary", p)
        /\ IF p.kind = "ok" THEN FxReturn(UsdSynthesized(p.rates))
           ELSE FxReturn(EmptyDict)
    /\ UNCHANGED <<exc, askVars, curVars, shown, fx_code, fx_ret, idxVars, geoVars>>

----------------------------------------------------------------------------
(* get_stock_index_values, lines 149-202 *)

UnknownIndex == <<"U","n","k","n","o","w","n"," ","I","n","d","e","x">>
BadName == <<"<list>">>        \* a name that is a JSON array: unhashable
NoSymbolAvailable == [text |-> "No symbol available"]
DataUnavailable == [text |-> "Data unavailable"]
ErrorValue == [text |-> "Error: ..."]

\* index.get("symbol", "") and index.get("name", "Unknown Index")
SymbolOfMutant(index) == index.symbol
SymbolOf(index) == IF index.symbol = Missing THEN <<>> ELSE index.symbol
NameOf(index) == IF index.name = Missing THEN UnknownIndex ELSE index.name

\* `not symbol`
SymbolFalsy(symbol) == symbol = <<>> \/ symbol = JsonNull

\* values[name] = v
Put(d, k, v) == [x \in DOMAIN d \cup {k} |-> IF x = k THEN v ELSE d[x]]

\* lines 195-198: `if price:` is false for None and for 0
PriceValue(price) ==
    IF price # NoRate /\ price[1] # 0 THEN [price |-> price[1]] ELSE DataUnavailable

\* the value line 196, 198 or 200 stores for one lookup outcome
LookupValue(o) == IF o.kind = "raise" THEN ErrorValue ELSE PriceValue(o.price)

\* line 153: the loop goes on with the next index whatever the lookup did
NextIndexMutant(o) == IF o.kind = "raise" THEN Len(all_indices) + 1 ELSE idx_i + 1
NextIndex(o) == idx_i + 1

\* lines 157-159.  Storing under an unhashable name raises outside any try.
IdxNoSymbol ==
    /\ pc = "idx" /\ idx_i <= Len(all_indices)
    /\ SymbolFalsy(SymbolOf(all_indices[idx_i]))
    /\ IF NameOf(all_indices[idx_i]) = BadName
       THEN pc' = "raised" /\ exc' = "TypeError@158" /\ UNCHANGED <<idx_i, values>>
       ELSE /\ values' = Put(values, NameOf(all_indices[idx_i]), NoSymbolAvailable)
            /\ idx_i' = idx_i + 1
            /\ UNCHANGED <<pc, exc>>
    /\ UNCHANGED <<askVars, curVars, rateVars, fxVars, all_indices, lookups, geoVars>>

\* lines 161-200 for one index whose symbol is truthy.  A non-string symbol
\* raises on line 165 and an unhashable or non-string name raises on line
\* 167, both inside the try; the handler's own store raises again when the
\* name is unhashable.
IdxLookup(Outcomes) ==
    /\ pc = "idx" /\ idx_i <= Len(all_indices)
    /\ ~SymbolFalsy(SymbolOf(all_indices[idx_i]))
    /\ LET name == NameOf(all_indices[idx_i])
           symbol == SymbolOf(all_indices[idx_i])
       IN  IF symbol = NonStr
           THEN /\ UNCHANGED lookups
                /\ IF name = BadName
                   THEN pc' = "raised" /\ exc' = "TypeError@200" /\ UNCHANGED <<idx_i, values>>
                   ELSE /\ values' = Put(values, name, ErrorValue)
                        /\ idx_i' = idx_i + 1
                        /\ UNCHANGED <<pc, exc>>
           ELSE IF name = BadName
           THEN /\ pc' = "raised" /\ exc' = "TypeError@200"
                /\ UNCHANGED <<idx_i, values>>
                /\ IF StrContains(symbol, Caret) \/ StrContains(symbol, Dot)
                   THEN lookups' = Append(lookups, [i |-> idx_i, ticker |-> symbol])
                   ELSE UNCHANGED lookups
           ELSE \E o \in Outcomes :
                /\ lookups' = Append(lookups, [i |-> idx_i, ticker |-> YfSymbol(name, symbol)])
                /\ values' = Put(values, name, LookupValue(o))
                /\ idx_i' = NextIndex(o)
                /\ UNCHANGED <<pc, exc>>
    /\ UNCHANGED <<askVars, curVars, rateVars, fxVars, all_indices, geoVars>>

\* line 202, back at line 343; lines 345-348 render the mapping
IdxReturn ==
    /\ pc = "idx" /\ idx_i > Len(all_indices)
    /\ pc' = "location"
    /\ UNCHANGED <<exc, askVars, curVars, rateVars, fxVars, idxVars, geoVars>>

----------------------------------------------------------------------------
(* get_maps_link, lines 225-243 *)

(* The geocoding provider's response:                                      *)
(*   [kind |-> "transport"]  requests.get raised                           *)
(*   [kind |-> "badbody"]    response.json() raised                        *)
(*   [kind |-> "json", status |-> s, results |-> rs]  with s = "<missing>" *)
(*       when the document has no 'status', and each result               *)
(*       [hasGeo, lat, lng, hasAddr, addr]                                 *)
AllAbsent == [map_url |-> <<>>, lat |-> <<>>, lng |-> <<>>, formatted_address |-> <<>>]

GeoFound(r) ==
    [map_url |-> <<[lat |-> r.lat, lng |-> r.lng]>>, lat |-> <<r.lat>>,
     lng |-> <<r.lng>>, formatted_address |-> <<r.addr>>]

GeoFirstMutant(rs) == rs[Len(rs)]
GeoFirst(rs) == rs[1]

get_maps_link(resp) ==
    IF resp.kind # "json" THEN AllAbsent                      \* lines 229-230 raise
    ELSE IF resp.status = "<missing>" THEN AllAbsent          \* line 232 raises
    ELSE IF resp.status # "OK" THEN AllAbsent                 \* lines 238-240
    ELSE IF resp.results = <<>> THEN AllAbsent                \* line 233 raises
    ELSE IF ~GeoFirst(resp.results).hasGeo
            \/ ~GeoFirst(resp.results).hasAddr THEN AllAbsent \* lines 233-235 raise
    ELSE GeoFound(GeoFirst(resp.results))

----------------------------------------------------------------------------
(* The top-level flow, lines 253-376 *)

Raise(e) == pc' = "raised" /\ exc' = e

\* line 256
AskGemini(Resps) ==
    /\ pc = "ask"
    /\ \E resp \in Resps :
        /\ structured_data' = ask_gemini(resp)[1]
        /\ raw_llm_response' = ask_gemini(resp)[2]
        /\ response_text' = IF resp.kind = "text" THEN resp.text ELSE NoText
    /\ gemini_calls' = gemini_calls + 1
    /\ pc' = "facts"
    /\ UNCHANGED <<exc, curVars, rateVars, fxVars, idxVars, geoVars>>

\* lines 259-267: the raw response is rendered, then `if structured_data:`
FactsGate ==
    /\ pc = "facts"
    /\ pc' = IF Truthy(structured_data) THEN "currency" ELSE "col2"
    /\ UNCHANGED <<exc, askVars, curVars, rateVars, fxVars, idxVars, geoVars>>

(* lines 269-277.  cur is the document's "currency" member:                *)
(*   [kind |-> "missing"], [kind |-> "nonobj"] (a string, number, array or *)
(*   null) or [kind |-> "obj", code |-> c] with c a string, Missing,       *)
(*   JsonNull or NonStr.                                                   *)
ReadCurrency(Curs) ==
    /\ pc = "currency"
    /\ IF ~IsJsonObject(structured_data)
       THEN Raise("AttributeError@269") /\ UNCHANGED curVars
       ELSE \E cur \in Curs :
            IF cur.kind = "nonobj"
            THEN Raise("AttributeError@270") /\ UNCHANGED curVars
            ELSE LET c == IF cur.kind = "missing" \/ cur.code = Missing
                          THEN <<>> ELSE cur.code
                     n == normalize_currency_code(c)
                 IN  /\ code_raw' = c
                     /\ IF n = TypeErrorRaised
                        THEN Raise("TypeError@210") /\ UNCHANGED currency_code
                        ELSE /\ currency_code' = n
                             /\ pc' = IF n # <<>> THEN "rates" ELSE "exchanges"
                             /\ UNCHANGED exc
    /\ UNCHANGED <<askVars, rateVars, fxVars, idxVars, geoVars>>

\* line 279: rates = get_exchange_rates(currency_code)
CallRates ==
    /\ pc = "rates"
    /\ pc' = "fx" /\ fxPc' = "primary" /\ fx_code' = currency_code
    /\ fx_ret' = "direct" /\ fxResp' = EmptyDict
    /\ UNCHANGED <<exc, askVars, curVars, rateVars, fxLog, idxVars, geoVars>>

\* `rates and any(rates.values())`, line 281
AnyTruthy(r) == \E k \in DOMAIN r : r[k] # NoRate /\ r[k][1] # 0

\* lines 283-287: a rate is rendered as numerator over denominator
ShowDirect(r) == [k \in DOMAIN r |-> IF r[k] # NoRate THEN <<r[k][1], 1>> ELSE NoRate]

\* lines 281-287
DisplayRates ==
    /\ pc = "display" /\ AnyTruthy(rates)
    /\ shown' = ShowDirect(rates)
    /\ pc' = "exchanges"
    /\ UNCHANGED <<exc, askVars, curVars, rates, usd_rates, fxVars, idxVars, geoVars>>

\* lines 288-293: usd_rates = get_exchange_rates("USD")
TryInversion ==
    /\ pc = "display" /\ ~AnyTruthy(rates)
    /\ pc' = "fx" /\ fxPc' = "primary" /\ fx_code' = USD
    /\ fx_ret' = "usd" /\ fxResp' = EmptyDict
    /\ UNCHANGED <<exc, askVars, curVars, rateVars, fxLog, idxVars, geoVars>>

\* lines 294-313: the lines rendered from usd_rates
InvertedRates(code, u) ==
    IF u # EmptyDict /\ code \in DOMAIN u /\ u[code] # NoRate /\ u[code][1] > 0
    THEN [k \in {USD} \cup {t \in {EUR, GBP, INR} : u[t] # NoRate /\ u[t][1] # 0} |->
             IF k = USD THEN <<1, u[code][1]>> ELSE <<u[k][1], u[code][1]>>]
    ELSE EmptyDict

\* lines 294-315
Invert ==
    /\ pc = "invert"
    /\ shown' = InvertedRates(currency_code, usd_rates)
    /\ pc' = "exchanges"
    /\ UNCHANGED <<exc, askVars, curVars, rates, usd_rates, fxVars, idxVars, geoVars>>

(* lines 318-341.  The document's "exchanges" member is                    *)
(*   [kind |-> "missing"] (absent, null or empty), [kind |-> "nonlist"] (a *)
(*   truthy value that is not an array) or [kind |-> "list", items |-> s]; *)
(*   an exchange is [kind |-> "nonobj"] or [kind |-> "obj", indices |-> v] *)
(*   with v of the same three shapes; an index entry is                    *)
(*   [kind |-> "nonobj"] or [kind |-> "obj", name |-> n, symbol |-> s].    *)
(* Iterating a truthy non-array yields elements without .get (or is a      *)
(* TypeError), so every "nonlist" and every "nonobj" raises.               *)
ExchangeRaises(e) ==
    \/ e.kind = "nonobj"
    \/ /\ e.kind = "obj"
       /\ \/ e.indices.kind = "nonlist"
          \/ /\ e.indices.kind = "list"
             /\ \E i \in 1..Len(e.indices.items) : e.indices.items[i].kind = "nonobj"

IndicesOf(e) == IF e.indices.kind = "list" THEN e.indices.items ELSE <<>>

RECURSIVE Flatten(_)
Flatten(exs) == IF exs = <<>> THEN <<>> ELSE IndicesOf(Head(exs)) \o Flatten(Tail(exs))

CollectIndices(ex) ==
    IF ex.kind = "missing" THEN [raised |-> FALSE, indices |-> <<>>]
    ELSE IF ex.kind = "nonlist" THEN [raised |-> TRUE]
    ELSE IF \E i \in 1..Len(ex.items) : ExchangeRaises(ex.items[i]) THEN [raised |-> TRUE]
    ELSE [raised |-> FALSE, indices |-> Flatten(ex.items)]

\* lines 318-343, up to the call of get_stock_index_values(all_indices)
ReadExchanges(Exs) ==
    /\ pc = "exchanges"
    /\ \E ex \in Exs :
        IF CollectIndices(ex).raised
        THEN Raise("AttributeError@325") /\ UNCHANGED <<all_indices, idx_i, values>>
        ELSE /\ all_indices' = CollectIndices(ex).indices
             /\ idx_i' = 1
             /\ values' = EmptyDict
             /\ pc' = IF CollectIndices(ex).indices # <<>> THEN "idx" ELSE "location"
             /\ UNCHANGED exc
    /\ UNCHANGED <<askVars, curVars, rateVars, fxVars, lookups, geoVars>>

\* lines 353-356
ReadLocation(Locs) ==
    /\ pc = "location"
    /\ \E loc \in Locs : main_location' = loc
    /\ pc' = "col2"
    /\ UNCHANGED <<exc, askVars, curVars, rateVars, fxVars, idxVars,
                   geo_resp, geo_result, geo_calls>>

\* `structured_data and structured_data.get("main_exchange_location")`, line 360
WantsMap == Truthy(structured_data) /\ main_location # Missing /\ main_location # <<>>

\* lines 360-376
GetMapsLink(Geos) ==
    /\ pc = "col2" /\ WantsMap
    /\ \E g \in Geos : geo_resp' = g /\ geo_result' = get_maps_link(g)
    /\ geo_calls' = geo_calls + 1
    /\ pc' = "done"
    /\ UNCHANGED <<exc, askVars, curVars, rateVars, fxVars, idxVars, main_location>>

\* line 360 false: the column stays empty
SkipMap ==
    /\ pc = "col2" /\ ~WantsMap
    /\ pc' = "done"
    /\ UNCHANGED <<exc, askVars, curVars, rateVars, fxVars, idxVars, geoVars>>

----------------------------------------------------------------------------
(* Inputs of one query *)

ObjectText == <<"O">>
FencedObjectText == <<"T","j","N","O","N","T">>

\* what the generative endpoint may do
QueryResps ==
    {[kind |-> "error"]} \cup
    {[kind |-> "text", text |-> t] :
        t \in {ObjectText, FencedObjectText, <<"1">>, <<"j","O">>,
               <<"T","j","N","j","N","T">>}}

QueryCurs ==
    {[kind |-> "missing"], [kind |-> "nonobj"]} \cup
    {[kind |-> "obj", code |-> c] :
        c \in {Missing, JsonNull, NonStr, <<>>, <<"u","s","d">>, <<"J","P","Y">>,
               <<"i","n","r","1">>}}

\* a table of rates as a provider publishes it, keyed by currency
QueryTable == [k \in Targets \cup {JPY} |->
                  IF k = USD THEN 1 ELSE IF k = EUR THEN 2 ELSE IF k = GBP THEN 3
                  ELSE IF k = INR THEN 4 ELSE 5]

QueryFx ==
    {[kind |-> "transport"], [kind |-> "non200"], [kind |-> "badbody"],
     [kind |-> "ok", rates |-> QueryTable],
     [kind |-> "ok", rates |-> [k \in {USD, GBP, EUR, JPY} |-> QueryTable[k]]],
     [kind |-> "ok", rates |-> [k \in Targets |-> 0]]}

DaxName == <<"D","A","X">>
NikkeiName == <<"N","i","k","k","e","i">>
PlainSymbol == <<"X">>

Entry(n, s) == [kind |-> "obj", name |-> n, symbol |-> s]
NonObject == [kind |-> "nonobj"]
ListOf(s) == [kind |-> "list", items |-> s]
ExchangeWith(v) == [kind |-> "obj", indices |-> v]

QueryExchanges ==
    {[kind |-> "missing"], [kind |-> "nonlist"],
     ListOf(<<NonObject>>),
     ListOf(<<ExchangeWith([kind |-> "missing"])>>),
     ListOf(<<ExchangeWith([kind |-> "nonlist"])>>),
     ListOf(<<ExchangeWith(ListOf(<<NonObject>>))>>),
     ListOf(<<ExchangeWith(ListOf(<<Entry(DaxName, <<>>), Entry(DaxName, PlainSymbol)>>)),
              ExchangeWith(ListOf(<<Entry(NikkeiName, Missing)>>))>>),
     ListOf(<<ExchangeWith(ListOf(<<Entry(BadName, PlainSymbol)>>))>>),
     ListOf(<<ExchangeWith(ListOf(<<Entry(BadName, <<>>)>>))>>),
     ListOf(<<ExchangeWith(ListOf(<<Entry(DaxName, NonStr)>>))>>)}

\* what one yf.Ticker lookup may do: raise, or yield info with this price
LookupOutcomes ==
    {[kind |-> "raise"], [kind |-> "info", price |-> NoRate],
     [kind |-> "info", price |-> <<0>>], [kind |-> "info", price |-> <<7>>]}

Address == <<"a">>
QueryLocs == {Missing, <<>>, Address}

FullResult == [hasGeo |-> TRUE, lat |-> 1, lng |-> 2, hasAddr |-> TRUE, addr |-> Address]

QueryGeos ==
    {[kind |-> "transport"],
     [kind |-> "json", status |-> "ZERO_RESULTS", results |-> <<>>],
     [kind |-> "json", status |-> "OK", results |-> <<>>],
     [kind |-> "json", status |-> "OK", results |-> <<FullResult>>]}

----------------------------------------------------------------------------
(* One query, from the moment the user submits a country *)

Init ==
    /\ pc = "ask" /\ exc = "none"
    /\ response_text = NoText /\ structured_data = PyNone
    /\ raw_llm_response = NoText /\ gemini_calls = 0
    /\ code_raw = <<>> /\ currency_code = <<>>
    /\ rates = EmptyDict /\ usd_rates = EmptyDict /\ shown = EmptyDict
    /\ fxPc = "idle" /\ fx_code = <<>> /\ fx_ret = "none"
    /\ fxResp = EmptyDict /\ fxLog = <<>>
    /\ all_indices = <<>> /\ idx_i = 1 /\ values = EmptyDict /\ lookups = <<>>
    /\ main_location = Missing /\ geo_resp = [kind |-> "none"]
    /\ geo_result = AllAbsent /\ geo_calls = 0

Next ==
    \/ AskGemini(QueryResps)
    \/ FactsGate
    \/ ReadCurrency(QueryCurs)
    \/ CallRates
    \/ FxPrimary(QueryFx)
    \/ FxSecondary(QueryFx)
    \/ FxTertiary(QueryFx)
    \/ DisplayRates
    \/ TryInversion
    \/ Invert
    \/ ReadExchanges(QueryExchanges)
    \/ IdxNoSymbol
    \/ IdxLookup(LookupOutcomes)
    \/ IdxReturn
    \/ ReadLocation(QueryLocs)
    \/ GetMapsLink(QueryGeos)
    \/ SkipMap

Spec == Init /\ [][Next]_vars

----------------------------------------------------------------------------
(* The stages on their own, each from the state in which the flow enters   *)
(* it and over a wider range of inputs.                                    *)

MaxCodeLen == 5
MaxRate == 1
MaxNameParts == 2
MaxIndices == 3
MaxTextLen == 8
MaxGeoResults == 2
MaxCoord == 2

\* the model answered with a JSON object (lines 256-267 passed)
Answered ==
    /\ exc = "none"
    /\ response_text = ObjectText /\ structured_data = ObjectText
    /\ raw_llm_response = ObjectText /\ gemini_calls = 1

NoRatesYet ==
    /\ rates = EmptyDict /\ usd_rates = EmptyDict /\ shown = EmptyDict
    /\ fxPc = "idle" /\ fx_code = <<>> /\ fx_ret = "none"
    /\ fxResp = EmptyDict /\ fxLog = <<>>

NoIndicesYet == all_indices = <<>> /\ idx_i = 1 /\ values = EmptyDict /\ lookups = <<>>

NoMapYet == geo_resp = [kind |-> "none"] /\ geo_result = AllAbsent /\ geo_calls = 0

(* normalize_currency_code over every string of CodeAlphabet *)
CodeAlphabet == {"u", "s", "D", "1", "-"}
CodeStrings == SeqsBetween(CodeAlphabet, 0, MaxCodeLen)

InitNorm ==
    /\ pc = "currency" /\ Answered
    /\ code_raw = <<>> /\ currency_code = <<>>
    /\ NoRatesYet /\ NoIndicesYet /\ main_location = Missing /\ NoMapYet

NextNorm == ReadCurrency({[kind |-> "obj", code |-> c] : c \in CodeStrings})

SpecNorm == InitNorm /\ [][NextNorm]_vars

(* get_exchange_rates over every rates mapping with values 0..MaxRate *)
FxCodes == {USD, JPY, INR}
RateMaps == UNION {[ks -> 0..MaxRate] : ks \in SUBSET Targets}
AllFx ==
    {[kind |-> "transport"], [kind |-> "non200"], [kind |-> "badbody"]} \cup
    {[kind |-> "ok", rates |-> f] : f \in RateMaps}

InitFx ==
    /\ pc = "rates" /\ Answered
    /\ currency_code \in FxCodes /\ code_raw = currency_code
    /\ NoRatesYet /\ NoIndicesYet /\ main_location = Missing /\ NoMapYet

NextFx ==
    \/ CallRates
    \/ FxPrimary(AllFx)
    \/ FxSecondary(AllFx)
    \/ FxTertiary(AllFx)

SpecFx == InitFx /\ [][NextFx]_vars

(* get_stock_index_values: one index with a composed name, or a short      *)
(* sequence of indices over two names                                      *)
NamePieces ==
    {<<"N","i","f","t","y">>, <<"S","E","N","S","E","X">>, <<"n","i","k","k","e","i">>,
     <<"F","T","S","E">>, <<"D","o","w">>, <<"S","&","P">>, <<"s","p","x">>,
     <<"N","a","s","d","a","q">>, <<"K","O","S","P","I">>,
     <<"S","h","a","n","g","h","a","i">>, <<"H","a","n","g">>, <<" ","S","e","n","g">>,
     <<"D","A","X">>, <<"c","a","c">>, <<" ","5","0">>}

RECURSIVE Concat(_)
Concat(ss) == IF ss = <<>> THEN <<>> ELSE Head(ss) \o Concat(Tail(ss))

ComposedNames == {Concat(ps) : ps \in SeqsBetween(NamePieces, 0, MaxNameParts)} \cup {Missing}
TickerSymbols ==
    {Missing, <<>>, <<"N","S","E","I">>, <<"^","G","S","P","C">>, <<"7","2","0","3",".","T">>}

IndexInputs ==
    {<<Entry(n, s)>> : n \in ComposedNames, s \in TickerSymbols} \cup
    SeqsBetween({Entry(n, s) : n \in {DaxName, NikkeiName}, s \in {Missing, <<>>, PlainSymbol}},
                2, MaxIndices)

InitIdx ==
    /\ pc = "idx" /\ Answered
    /\ code_raw = <<>> /\ currency_code = <<>>
    /\ NoRatesYet
    /\ all_indices \in IndexInputs /\ idx_i = 1 /\ values = EmptyDict /\ lookups = <<>>
    /\ main_location = Missing /\ NoMapYet

NextIdx ==
    \/ IdxNoSymbol
    \/ IdxLookup(LookupOutcomes)
    \/ IdxReturn

SpecIdx == InitIdx /\ [][NextIdx]_vars

(* ask_gemini over every text of ParseAlphabet up to MaxTextLen *)
AllResps ==
    {[kind |-> "error"]} \cup
    {[kind |-> "text", text |-> t] : t \in SeqsBetween(ParseAlphabet, 0, MaxTextLen)}

NextParse == AskGemini(AllResps)

SpecParse == Init /\ [][NextParse]_vars

(* get_maps_link over every response shape *)
GeoResults ==
    {[hasGeo |-> g, lat |-> la, lng |-> 2, hasAddr |-> a, addr |-> Address] :
        g \in BOOLEAN, a \in BOOLEAN, la \in 1..MaxCoord}
AllGeos ==
    {[kind |-> "transport"], [kind |-> "badbody"]} \cup
    {[kind |-> "json", status |-> s, results |-> rs] :
        s \in {"<missing>", "OK", "ZERO_RESULTS", "REQUEST_DENIED"},
        rs \in SeqsBetween(GeoResults, 0, MaxGeoResults)}

InitGeo ==
    /\ pc = "col2" /\ Answered
    /\ code_raw = <<>> /\ currency_code = <<>>
    /\ NoRatesYet /\ NoIndicesYet
    /\ main_location \in QueryLocs /\ NoMapYet

NextGeo ==
    \/ GetMapsLink(AllGeos)
    \/ SkipMap

SpecGeo == InitGeo /\ [][NextGeo]_vars

----------------------------------------------------------------------------
(* Properties *)

\* The display name and the symbol of an index entry, read off the entry.
DisplayName(index) == IF index.name = Missing THEN UnknownIndex ELSE index.name
LacksSymbol(index) == index.symbol = Missing \/ index.symbol = <<>>
LookedUp(i) == \E k \in 1..Len(lookups) : lookups[k].i = i

(* C1 -- get_exchange_rates queries the secondary provider, with the same  *)
(* base, exactly when the primary did not give a successful response       *)
(* holding all four targets (a non-200 status, a 200 response missing a    *)
(* target, or a transport failure); and when the secondary answers         *)
(* successfully the result is its subset of the four targets, the missing  *)
(* ones absent.                                                            *)
C1_SecondaryExactlyWhenPrimaryUnusable ==
    pc = "display" =>
        LET asked == "secondary" \in DOMAIN fxResp
            primaryGood == /\ fxResp["primary"].kind = "ok"
                           /\ Targets \subseteq DOMAIN fxResp["primary"].rates
        IN  /\ asked <=> ~primaryGood
            /\ asked => \E k \in 1..Len(fxLog) : fxLog[k] = <<"secondary", currency_code>>
            /\ (asked /\ fxResp["secondary"].kind = "ok") =>
                   rates = [k \in Targets |->
                               IF k \in DOMAIN fxResp["secondary"].rates
                               THEN <<fxResp["secondary"].rates[k]>> ELSE NoRate]

(* C2 -- inversion fallback: for a currency code C outside the four        *)
(* targets, when the direct resolution yields no rates and the USD-based   *)
(* resolution succeeds, the flow shows rate(C->USD) = 1 / rate(USD->C) and,*)
(* for each T in {EUR, GBP, INR} whose USD-based rate is present and       *)
(* positive, rate(C->T) = rate(USD->T) / rate(USD->C).                     *)
C2_InversionDerivesRates ==
    (/\ fx_ret = "usd" /\ fxPc = "idle" /\ pc # "invert"
     /\ currency_code \notin Targets
     /\ usd_rates # EmptyDict
     /\ fxResp[fxLog[Len(fxLog)][1]].kind = "ok"
     /\ currency_code \in DOMAIN fxResp[fxLog[Len(fxLog)][1]].rates
     /\ fxResp[fxLog[Len(fxLog)][1]].rates[currency_code] > 0)
    => LET usdToC == fxResp[fxLog[Len(fxLog)][1]].rates[currency_code]
       IN  /\ USD \in DOMAIN shown /\ shown[USD] = <<1, usdToC>>
           /\ \A t \in {EUR, GBP, INR} :
                 (usd_rates[t] # NoRate /\ usd_rates[t][1] > 0) =>
                     (t \in DOMAIN shown /\ shown[t] = <<usd_rates[t][1], usdToC>>)

(* C3 -- processing one query never ends in an uncaught exception,         *)
(* whatever JSON the model returned and whatever the providers did.        *)
C3_NoUncaughtException == pc # "raised" /\ exc = "none"

\* The first fenced block of a text: the first opening fence and the first
\* closing fence after its newline.
OpenAt(t, i) == i + 2 <= Len(t) /\ t[i] = "T" /\ t[i + 1] = "j" /\ t[i + 2] = "N"
CloseAt(t, k) == k + 1 <= Len(t) /\ t[k] = "N" /\ t[k + 1] = "T"
FirstBlock(t, i, k) ==
    /\ OpenAt(t, i) /\ CloseAt(t, k) /\ k >= i + 3
    /\ \A h \in 1..(i - 1) : ~OpenAt(t, h)
    /\ \A h \in (i + 3)..(k - 1) : ~CloseAt(t, h)
Blocks(t) == {<<i, k>> \in (1..Len(t)) \X (1..Len(t)) : FirstBlock(t, i, k)}
\* the JSON candidate: the content of the first block, or the whole text
Candidates(t) ==
    IF Blocks(t) = {} THEN {t} ELSE {SubSeq(t, b[1] + 3, b[2] - 1) : b \in Blocks(t)}
Facts(s) == IF json_loads(s) = JSONDecodeError THEN PyNone ELSE json_loads(s)

(* C4 -- when the response text cannot be parsed as JSON, ask_gemini       *)
(* returns (None, the raw text), the model is not queried again, and       *)
(* get_exchange_rates, get_stock_index_values and get_maps_link are never  *)
(* called: the flow goes straight to its end.                              *)
C4_UnparseableEndsQuery ==
    (/\ pc # "ask" /\ response_text # NoText
     /\ \A c \in Candidates(response_text) : json_loads(c) = JSONDecodeError)
    => /\ structured_data = PyNone
       /\ raw_llm_response = response_text
       /\ gemini_calls = 1
       /\ pc \in {"facts", "col2", "done"} /\ exc = "none"
       /\ fxLog = <<>> /\ fxPc = "idle" /\ fx_ret = "none"
       /\ all_indices = <<>> /\ lookups = <<>> /\ values = EmptyDict
       /\ geo_calls = 0

C4_Witness ==
    /\ pc = "done"
    /\ response_text = <<"T","j","N","j","N","T">>
    /\ structured_data = PyNone

(* C5 -- in get_stock_index_values one index's failure never aborts the    *)
(* others: every index passed so far has an entry under its display name,  *)
(* a lookup was attempted for each of them that has a non-empty symbol,    *)
(* and the function returns only after the last index.                     *)
C5_EveryIndexResolved ==
    /\ pc \in {"idx", "location"}
    /\ \A i \in 1..Len(all_indices) :
          i < idx_i =>
              /\ DisplayName(all_indices[i]) \in DOMAIN values
              /\ ~LacksSymbol(all_indices[i]) => LookedUp(i)
    /\ pc = "location" => idx_i = Len(all_indices) + 1

C5_Witness ==
    /\ pc = "location"
    /\ all_indices = <<Entry(DaxName, PlainSymbol), Entry(NikkeiName, PlainSymbol)>>
    /\ values = [n \in {DaxName, NikkeiName} |->
                    IF n = DaxName THEN ErrorValue ELSE [price |-> 7]]
    /\ Len(lookups) = 2

(* C6, as claimed -- an index whose symbol is empty or missing always      *)
(* yields "No symbol available" under its name in the returned mapping,    *)
(* and no lookup is attempted for it: the number of lookups is the number  *)
(* of indices with a non-empty symbol.                                     *)
C6_NoSymbolAlwaysMarked ==
    pc = "location" =>
        /\ \A i \in 1..Len(all_indices) :
              LacksSymbol(all_indices[i]) =>
                  /\ DisplayName(all_indices[i]) \in DOMAIN values
                  /\ values[DisplayName(all_indices[i])] = NoSymbolAvailable
                  /\ ~LookedUp(i)
        /\ Len(lookups) = Cardinality({i \in 1..Len(all_indices) : ~LacksSymbol(all_indices[i])})

(* C6, amended -- an index whose symbol is empty or missing yields "No     *)
(* symbol available" under its name in the returned mapping unless a later *)
(* index of the sequence has the same display name (the mapping keeps one  *)
(* entry per name, the last); no lookup is attempted for it, and the       *)
(* number of lookups is the number of indices with a non-empty symbol.     *)
C6_NoSymbolMarkedUnlessOverwritten ==
    pc = "location" =>
        /\ \A i \in 1..Len(all_indices) :
              LacksSymbol(all_indices[i]) =>
                  /\ DisplayName(all_indices[i]) \in DOMAIN values
                  /\ (\A j \in (i + 1)..Len(all_indices) :
                         DisplayName(all_indices[j]) # DisplayName(all_indices[i]))
                     => values[DisplayName(all_indices[i])] = NoSymbolAvailable
                  /\ ~LookedUp(i)
        /\ Len(lookups) = Cardinality({i \in 1..Len(all_indices) : ~LacksSymbol(all_indices[i])})

C6_Witness ==
    /\ pc = "location"
    /\ all_indices = <<Entry(DaxName, Missing), Entry(NikkeiName, PlainSymbol)>>
    /\ values[DaxName] = NoSymbolAvailable
    /\ Len(lookups) = 1 /\ lookups[1].i = 2

\* The fragments in their fixed order, each with its canonical ticker.
TickerTable ==
    << <<<<"N","I","F","T","Y">>, <<"^","N","S","E","I">>>>,
       <<<<"S","E","N","S","E","X">>, <<"^","B","S","E","S","N">>>>,
       <<<<"N","I","K","K","E","I">>, <<"^","N","2","2","5">>>>,
       <<<<"F","T","S","E">>, <<"^","F","T","S","E">>>>,
       <<<<"D","O","W">>, <<"^","D","J","I">>>>,
       <<<<"S","&","P">>, <<"^","G","S","P","C">>>>,
       <<<<"S","P","X">>, <<"^","G","S","P","C">>>>,
       <<<<"N","A","S","D","A","Q">>, <<"^","I","X","I","C">>>>,
       <<<<"K","O","S","P","I">>, <<"^","K","S","1","1">>>>,
       <<<<"S","H","A","N","G","H","A","I">>, <<"0","0","0","0","0","1",".","S","S">>>>,
       <<<<"H","A","N","G"," ","S","E","N","G">>, <<"^","H","S","I">>>>,
       <<<<"D","A","X">>, <<"^","G","D","A","X","I">>>>,
       <<<<"C","A","C">>, <<"^","F","C","H","I">>>> >>

\* frag (upper case) occurs in name, letter case ignored
OccursIgnoringCase(name, frag) ==
    \E i \in 1..(Len(name) - Len(frag) + 1) :
        \A j \in 1..Len(frag) : UpperChar(name[i + j - 1]) = frag[j]

ReferenceTicker(name, symbol) ==
    IF \E i \in 1..Len(symbol) : symbol[i] \in {"^", "."} THEN symbol
    ELSE LET hits == {n \in 1..Len(TickerTable) : OccursIgnoringCase(name, TickerTable[n][1])}
         IN  IF hits = {} THEN symbol ELSE TickerTable[Min(hits)][2]

(* C7 -- the ticker of every market lookup is the reference function of    *)
(* (name, symbol): the symbol itself when it contains "^" or ".", else the *)
(* ticker of the first fragment of the fixed order that occurs in the name *)
(* ignoring case, else the symbol verbatim.                                *)
C7_TickerIsReference ==
    \A k \in 1..Len(lookups) :
        lookups[k].ticker =
            ReferenceTicker(DisplayName(all_indices[lookups[k].i]),
                            all_indices[lookups[k].i].symbol)

C7_Witness ==
    /\ Len(all_indices) = 1
    /\ all_indices[1].name = <<"D","o","w","N","a","s","d","a","q">>
    /\ Len(lookups) = 1
    /\ lookups[1].ticker = <<"^","D","J","I">>

RECURSIVE FirstLetters(_, _)
\* the first n letters of s, in order
FirstLetters(s, n) ==
    IF s = <<>> \/ n = 0 THEN <<>>
    ELSE IF IsAsciiLetter(Head(s)) THEN <<Head(s)>> \o FirstLetters(Tail(s), n - 1)
    ELSE FirstLetters(Tail(s), n)

(* C8 -- normalize_currency_code of a string has at most 3 characters, all *)
(* of them upper-case letters A-Z, is the first three letters of the input *)
(* in upper case, and is empty exactly when the input has no letter.       *)
C8_NormalizedCode ==
    pc \in {"rates", "exchanges"} =>
        /\ Len(currency_code) <= 3
        /\ \A i \in 1..Len(currency_code) :
              \E j \in 1..26 : currency_code[i] = UpperLetters[j]
        /\ currency_code = Upper(FirstLetters(code_raw, 3))
        /\ (currency_code = <<>>) <=> ~(\E i \in 1..Len(code_raw) : IsAsciiLetter(code_raw[i]))

C8_Witness ==
    /\ pc = "rates"
    /\ code_raw = <<"u","1","s","D","u">>
    /\ currency_code = <<"U","S","D">>

(* C9 -- a response that wraps a valid JSON document in a ```json fence    *)
(* yields the facts that the document alone yields; the first fenced block *)
(* is the JSON candidate when there is one, the whole response otherwise;  *)
(* the raw response text is returned in both cases.                        *)
C9_FencedParsesLikeUnwrapped ==
    (pc = "facts" /\ response_text # NoText) =>
        LET t == response_text
            inner == SubSeq(t, 4, Len(t) - 2)
        IN  /\ raw_llm_response = t
            /\ \A c \in Candidates(t) : structured_data = Facts(c)
            /\ json_loads(t) # JSONDecodeError => structured_data = json_loads(t)
            /\ (/\ Len(t) >= 5
                /\ t = FenceOpen \o inner \o FenceClose
                /\ json_loads(inner) # JSONDecodeError)
               => structured_data = json_loads(inner)

C9_Witness ==
    /\ pc = "facts"
    /\ response_text = <<"T","j","N","1","1","N","T">>
    /\ structured_data = <<"1","1">>
    /\ raw_llm_response = response_text

(* C10 -- get_maps_link never raises: a non-OK status, a response lacking  *)
(* the expected fields or a transport failure gives the all-absent tuple;  *)
(* only status OK gives a link built from the first result's lat/lng, with *)
(* that lat, lng and formatted address.                                    *)
C10_AllAbsentUnlessOk ==
    (pc = "done" /\ geo_calls = 1) =>
        LET found == /\ geo_resp.kind = "json" /\ geo_resp.status = "OK"
                     /\ geo_resp.results # <<>>
                     /\ geo_resp.results[1].hasGeo /\ geo_resp.results[1].hasAddr
        IN  /\ exc = "none"
            /\ ~found => geo_result = AllAbsent
            /\ found =>
                  geo_result =
                      [map_url |-> <<[lat |-> geo_resp.results[1].lat,
                                      lng |-> geo_resp.results[1].lng]>>,
                       lat |-> <<geo_resp.results[1].lat>>,
                       lng |-> <<geo_resp.results[1].lng>>,
                       formatted_address |-> <<geo_resp.results[1].addr>>]

C10_Witness ==
    /\ pc = "done" /\ geo_calls = 1
    /\ geo_resp.kind = "json" /\ geo_resp.status = "OK"
    /\ Len(geo_resp.results) = 2
    /\ geo_resp.results[1].hasGeo /\ geo_resp.results[1].hasAddr
    /\ geo_resp.results[1].lat = 2 /\ geo_resp.results[2].lat = 1
    /\ geo_result.lat = <<2>>

====
